---- MODULE Spec2Model ----
(***************************************************************************)
(* Model of the per-key coalescing queue of src/core/queue.py              *)
(* (class CoalescingQueue): the registry _states, the registry lock, the   *)
(* key semaphore, and one worker coroutine (_run_worker) per registry      *)
(* entry.  A worker is cut into steps at its awaits: the wait for a signal *)
(* or the idle timeout, the debounce sleep, the semaphore, the job, and    *)
(* the lock of the clean-up.  Time is discrete; a sleep or a timeout of n  *)
(* ticks ends no earlier than n ticks after it was started.                *)
(***************************************************************************)
EXTENDS Integers, FiniteSets, Sequences, TLC

\* ---------------------------------------------------------------- bounds
Keys == {"A", "B"}
Jobs == {"j1", "j2"}
\* total number of enqueue calls in a behaviour
MaxEnq == 3
\* largest max_concurrent_keys a queue is constructed with
MaxSlots == 2
\* debounce_window and idle_timeout, in ticks (defaults 0.8s and 5.0s)
debounce_window == 2
idle_timeout == 3

Gens == 1..MaxEnq
Workers == Keys \X Gens
NoOne == <<"-", 0>>
NoJob == "-"

VARIABLES
  states,               \* _states: key -> generation of its _WorkerState, 0 = no entry
  signal,               \* _WorkerState.signal (asyncio.Event) of every worker state
  pc,                   \* position of every _run_worker coroutine
  timer,                \* ticks left of the sleep / idle timeout a worker is in
  factory,              \* job_factory argument bound to every _run_worker call
  lock,                 \* _lock: NoOne or the worker holding it
  sem,                  \* value of _key_semaphore
  max_concurrent_keys,  \* constructor argument
  enqCount,             \* history: enqueue calls made per key
  runCount,             \* history: job executions started per key
  lastEnqPhase,         \* history: where the key's worker was at the last enqueue
  runsSinceEnq,         \* history: job executions started since the last enqueue
  sinceFirst,           \* history: ticks since the first enqueue of the key
  sinceLast,            \* history: ticks since the last enqueue of the key
  lastRaised,           \* history: the last finished job of the key raised an Exception
  queued,               \* history: a job execution of the key got its slot after queueing for it
  chain,                \* history: every enqueue came < debounce_window after the previous
  within,               \* history: every enqueue came < debounce_window after the first
  creatorJob,           \* history: job_factory of the enqueue that made the key's entry
  lastJob,              \* history: job_factory of the last enqueue of the key
  ranJob,               \* history: job_factory called at the last job start of the key
  faulted,              \* history: a job of the key ended with a fault, not an Exception
  ranOnce               \* history: the worker has started a job execution

progVars == <<states, signal, pc, timer, factory, lock, sem, max_concurrent_keys>>
jobHist == <<creatorJob, lastJob, ranJob>>
callHist == <<enqCount, runCount, lastEnqPhase, runsSinceEnq, sinceFirst, sinceLast, chain, within, queued, jobHist, faulted, ranOnce>>
histVars == <<enqCount, runCount, lastEnqPhase, runsSinceEnq, sinceFirst, sinceLast, chain, within, queued, lastRaised, jobHist, faulted, ranOnce>>
vars == <<states, signal, pc, timer, factory, lock, sem, max_concurrent_keys,
          enqCount, runCount, lastEnqPhase, runsSinceEnq, sinceFirst, sinceLast, chain, within, queued, lastRaised,
          creatorJob, lastJob, ranJob, faulted, ranOnce>>

\* ---------------------------------------------------------------- helpers
KeyOf(w) == w[1]
WorkersOf(k) == {w \in Workers : KeyOf(w) = k}
Live(w) == pc[w] \notin {"none", "done"}
LiveWorkers(k) == {w \in WorkersOf(k) : Live(w)}
Running == {w \in Workers : pc[w] = "run"}
Admitting == {w \in Workers : pc[w] = "admit"}
RECURSIVE SumOver(_, _)
SumOver(fn, S) == IF S = {} THEN 0 ELSE LET x == CHOOSE y \in S : TRUE IN fn[x] + SumOver(fn, S \ {x})
EnqTotal == SumOver(enqCount, Keys)
Min(a, b) == IF a < b THEN a ELSE b
\* the generation the next _WorkerState() of key k gets
NextGen(k) == CHOOSE g \in Gens : pc[<<k, g>>] = "none" /\ \A h \in Gens : h < g => pc[<<k, h>>] # "none"
\* registry empty for k and no coroutine of k left
Quiescent(k) == states[k] = 0 /\ LiveWorkers(k) = {}

\* ---------------------------------------------------------------- construction
Init ==
  /\ states = [k \in Keys |-> 0]
  /\ signal = [w \in Workers |-> FALSE]
  /\ pc = [w \in Workers |-> "none"]
  /\ timer = [w \in Workers |-> 0]
  /\ factory = [w \in Workers |-> NoJob]
  /\ lock = NoOne
  /\ max_concurrent_keys \in 1..MaxSlots
  /\ sem = max_concurrent_keys
  /\ enqCount = [k \in Keys |-> 0]
  /\ runCount = [k \in Keys |-> 0]
  /\ lastEnqPhase = [k \in Keys |-> "never"]
  /\ runsSinceEnq = [k \in Keys |-> 0]
  /\ sinceFirst = [k \in Keys |-> 0]
  /\ sinceLast = [k \in Keys |-> 0]
  /\ lastRaised = [k \in Keys |-> FALSE]
  /\ queued = [k \in Keys |-> FALSE]
  /\ chain = [k \in Keys |-> TRUE]
  /\ within = [k \in Keys |-> TRUE]
  /\ creatorJob = [k \in Keys |-> NoJob]
  /\ lastJob = [k \in Keys |-> NoJob]
  /\ ranJob = [k \in Keys |-> NoJob]
  /\ faulted = [k \in Keys |-> FALSE]
  /\ ranOnce = [w \in Workers |-> FALSE]

\* history kept at an enqueue call for k
NoteEnqueue(k) ==
  /\ enqCount' = [enqCount EXCEPT ![k] = @ + 1]
  /\ lastEnqPhase' = [lastEnqPhase EXCEPT ![k] = IF states[k] = 0 THEN "absent" ELSE pc[<<k, states[k]>>]]
  /\ runsSinceEnq' = [runsSinceEnq EXCEPT ![k] = 0]
  /\ chain' = [chain EXCEPT ![k] = @ /\ (enqCount[k] = 0 \/ sinceLast[k] < debounce_window)]
  /\ within' = [within EXCEPT ![k] = @ /\ (enqCount[k] = 0 \/ sinceFirst[k] < debounce_window)]
  /\ sinceLast' = [sinceLast EXCEPT ![k] = 0]
  /\ UNCHANGED <<runCount, sinceFirst, queued, lastRaised, jobHist, faulted, ranOnce>>

\* history kept when a job execution of key k starts
NoteRun(k) ==
  /\ runCount' = [runCount EXCEPT ![k] = Min(@ + 1, MaxEnq + 1)]
  /\ runsSinceEnq' = [runsSinceEnq EXCEPT ![k] = Min(@ + 1, MaxEnq + 1)]
  /\ ranOnce' = [w \in Workers |-> ranOnce[w] \/ (KeyOf(w) = k /\ pc[w] # "run" /\ pc'[w] = "run")]
  /\ UNCHANGED <<enqCount, lastEnqPhase, sinceFirst, sinceLast, chain, within, queued, lastRaised, jobHist, faulted>>

\* the counts and the queueing alone, for the specification that observes nothing else
NoteEnqueueL(k) ==
  /\ enqCount' = [enqCount EXCEPT ![k] = @ + 1]
  /\ sinceLast' = [sinceLast EXCEPT ![k] = 0]
  /\ UNCHANGED <<runCount, lastEnqPhase, runsSinceEnq, sinceFirst, chain, within, queued, lastRaised, jobHist, faulted, ranOnce>>

NoteRunL(k) ==
  /\ runCount' = [runCount EXCEPT ![k] = Min(@ + 1, MaxEnq + 1)]
  /\ queued' = [queued EXCEPT ![k] = @ \/ (\E v \in WorkersOf(k) : pc[v] = "admit")]
  /\ UNCHANGED <<enqCount, lastEnqPhase, runsSinceEnq, sinceFirst, sinceLast, chain, within, lastRaised, jobHist, faulted, ranOnce>>

\* ---------------------------------------------------------------- enqueue
\* enqueue that never looks the key up and starts a worker on every call
Enqueue_spawnsAlways(k, f) ==
  /\ EnqTotal < MaxEnq
  /\ lock = NoOne
  /\ LET w == <<k, NextGen(k)>> IN
       /\ states' = [states EXCEPT ![k] = w[2]]
       /\ pc' = [pc EXCEPT ![w] = "new"]
       /\ factory' = [factory EXCEPT ![w] = f]
       /\ signal' = [signal EXCEPT ![w] = TRUE]
  /\ NoteEnqueue(k)
  /\ UNCHANGED <<timer, lock, sem, max_concurrent_keys>>

\* enqueue that signals only the worker it creates
Enqueue_noResignal(k, f) ==
  /\ EnqTotal < MaxEnq
  /\ lock = NoOne
  /\ IF states[k] = 0
       THEN LET w == <<k, NextGen(k)>> IN
            /\ states' = [states EXCEPT ![k] = w[2]]
            /\ pc' = [pc EXCEPT ![w] = "new"]
            /\ factory' = [factory EXCEPT ![w] = f]
            /\ signal' = [signal EXCEPT ![w] = TRUE]
       ELSE UNCHANGED <<states, pc, factory, signal>>
  /\ NoteEnqueue(k)
  /\ UNCHANGED <<timer, lock, sem, max_concurrent_keys>>

\* enqueue that cannot complete while a job of its key is running
Enqueue_awaitsJob(k, f) ==
  /\ EnqTotal < MaxEnq
  /\ lock = NoOne
  /\ \A w \in WorkersOf(k) : pc[w] # "run"
  /\ IF states[k] = 0
       THEN LET w == <<k, NextGen(k)>> IN
            /\ states' = [states EXCEPT ![k] = w[2]]
            /\ pc' = [pc EXCEPT ![w] = "new"]
            /\ factory' = [factory EXCEPT ![w] = f]
            /\ signal' = [signal EXCEPT ![w] = TRUE]
       ELSE /\ signal' = [signal EXCEPT ![<<k, states[k]>>] = TRUE]
            /\ UNCHANGED <<states, pc, factory>>
  /\ NoteEnqueue(k)
  /\ UNCHANGED <<timer, lock, sem, max_concurrent_keys>>

\* enqueue that starts the debounce pause of its key over
Enqueue_restartsDebounce(k, f) ==
  /\ EnqTotal < MaxEnq
  /\ lock = NoOne
  /\ IF states[k] = 0
       THEN LET w == <<k, NextGen(k)>> IN
            /\ states' = [states EXCEPT ![k] = w[2]]
            /\ pc' = [pc EXCEPT ![w] = "new"]
            /\ factory' = [factory EXCEPT ![w] = f]
            /\ signal' = [signal EXCEPT ![w] = TRUE]
            /\ UNCHANGED timer
       ELSE LET w == <<k, states[k]>> IN
            /\ signal' = [signal EXCEPT ![w] = TRUE]
            /\ timer' = [timer EXCEPT ![w] = IF pc[w] = "debounce" THEN debounce_window ELSE @]
            /\ UNCHANGED <<states, pc, factory>>
  /\ NoteEnqueue(k)
  /\ UNCHANGED <<lock, sem, max_concurrent_keys>>

\* enqueue that hands the job_factory of every call to the key's worker
EnqueueP_rebindsJob(k, f) ==
  /\ lock = NoOne
  /\ IF states[k] = 0
       THEN LET w == <<k, NextGen(k)>> IN
            /\ states' = [states EXCEPT ![k] = w[2]]
            /\ pc' = [pc EXCEPT ![w] = "new"]
            /\ factory' = [factory EXCEPT ![w] = f]
            /\ signal' = [signal EXCEPT ![w] = TRUE]
       ELSE /\ signal' = [signal EXCEPT ![<<k, states[k]>>] = TRUE]
            /\ factory' = [factory EXCEPT ![<<k, states[k]>>] = f]
            /\ UNCHANGED <<states, pc>>
  /\ UNCHANGED <<timer, lock, sem, max_concurrent_keys>>

\* enqueue that creates the worker and leaves its signal unset
EnqueueP_createsUnsignalled(k, f) ==
  /\ lock = NoOne
  /\ IF states[k] = 0
       THEN LET w == <<k, NextGen(k)>> IN
            /\ states' = [states EXCEPT ![k] = w[2]]
            /\ pc' = [pc EXCEPT ![w] = "new"]
            /\ factory' = [factory EXCEPT ![w] = f]
            /\ UNCHANGED signal
       ELSE /\ signal' = [signal EXCEPT ![<<k, states[k]>>] = TRUE]
            /\ UNCHANGED <<states, pc, factory>>
  /\ UNCHANGED <<timer, lock, sem, max_concurrent_keys>>

\* enqueue that wakes every registered worker
EnqueueP_signalsAll(k, f) ==
  /\ lock = NoOne
  /\ IF states[k] = 0
       THEN LET w == <<k, NextGen(k)>> IN
            /\ states' = [states EXCEPT ![k] = w[2]]
            /\ pc' = [pc EXCEPT ![w] = "new"]
            /\ factory' = [factory EXCEPT ![w] = f]
            /\ signal' = [v \in Workers |-> signal[v] \/ v = w \/ states[KeyOf(v)] = v[2]]
       ELSE /\ signal' = [v \in Workers |-> signal[v] \/ states[KeyOf(v)] = v[2]]
            /\ UNCHANGED <<states, pc, factory>>
  /\ UNCHANGED <<timer, lock, sem, max_concurrent_keys>>

\* enqueue that replaces the entry of a worker on its way out
EnqueueP_replacesExiting(k, f) ==
  /\ lock = NoOne
  /\ IF states[k] = 0 \/ pc[<<k, states[k]>>] = "cleanup"
       THEN LET w == <<k, NextGen(k)>> IN
            /\ states' = [states EXCEPT ![k] = w[2]]
            /\ pc' = [pc EXCEPT ![w] = "new"]
            /\ factory' = [factory EXCEPT ![w] = f]
            /\ signal' = [signal EXCEPT ![w] = TRUE]
       ELSE /\ signal' = [signal EXCEPT ![<<k, states[k]>>] = TRUE]
            /\ UNCHANGED <<states, pc, factory>>
  /\ UNCHANGED <<timer, lock, sem, max_concurrent_keys>>

\* what enqueue does to the queue
EnqueueP(k, f) ==
  /\ lock = NoOne
  /\ IF states[k] = 0
       THEN LET w == <<k, NextGen(k)>> IN
            /\ states' = [states EXCEPT ![k] = w[2]]
            /\ pc' = [pc EXCEPT ![w] = "new"]
            /\ factory' = [factory EXCEPT ![w] = f]
            /\ signal' = [signal EXCEPT ![w] = TRUE]
       ELSE /\ signal' = [signal EXCEPT ![<<k, states[k]>>] = TRUE]
            /\ UNCHANGED <<states, pc, factory>>
  /\ UNCHANGED <<timer, lock, sem, max_concurrent_keys>>

Enqueue(k, f) ==
  /\ EnqTotal < MaxEnq
  /\ EnqueueP(k, f)
  /\ NoteEnqueue(k)

EnqueueL(k, f) ==
  /\ EnqTotal < MaxEnq
  /\ EnqueueP(k, f)
  /\ NoteEnqueueL(k)

\* ---------------------------------------------------------------- _run_worker
\* a loop whose debounce sleep is one tick short
LoopTop_shortDebounce(w) ==
  IF signal[w]
    THEN /\ pc' = [pc EXCEPT ![w] = "debounce"]
         /\ timer' = [timer EXCEPT ![w] = debounce_window - 1]
    ELSE /\ pc' = [pc EXCEPT ![w] = "wait"]
         /\ timer' = [timer EXCEPT ![w] = idle_timeout]

\* top of the loop: wait_for(signal.wait(), idle_timeout) with the signal
\* already set returns at once and the debounce sleep starts; otherwise the
\* worker blocks with the idle timer armed
LoopTop(w) ==
  IF signal[w]
    THEN /\ pc' = [pc EXCEPT ![w] = "debounce"]
         /\ timer' = [timer EXCEPT ![w] = debounce_window]
    ELSE /\ pc' = [pc EXCEPT ![w] = "wait"]
         /\ timer' = [timer EXCEPT ![w] = idle_timeout]

\* first step of the task made by create_task
WorkerStart(w) ==
  /\ pc[w] = "new"
  /\ LoopTop(w)
  /\ UNCHANGED <<states, signal, factory, lock, sem, max_concurrent_keys>>
  /\ UNCHANGED histVars

\* a blocked worker that wakes up with no signal set
WaitSignal_spuriousWakeup(w) ==
  /\ pc[w] = "wait"
  /\ pc' = [pc EXCEPT ![w] = "debounce"]
  /\ timer' = [timer EXCEPT ![w] = debounce_window]
  /\ UNCHANGED <<states, signal, factory, lock, sem, max_concurrent_keys>>
  /\ UNCHANGED histVars

\* a blocked worker is woken by the signal
WaitSignal(w) ==
  /\ pc[w] = "wait"
  /\ signal[w]
  /\ pc' = [pc EXCEPT ![w] = "debounce"]
  /\ timer' = [timer EXCEPT ![w] = debounce_window]
  /\ UNCHANGED <<states, signal, factory, lock, sem, max_concurrent_keys>>
  /\ UNCHANGED histVars

\* an idle timeout that starts the wait over instead of ending the worker
TimeoutFire_rearms(w) ==
  /\ pc[w] = "wait"
  /\ ~signal[w]
  /\ timer[w] = 0
  /\ timer' = [timer EXCEPT ![w] = idle_timeout]
  /\ UNCHANGED <<states, signal, pc, factory, lock, sem, max_concurrent_keys>>
  /\ UNCHANGED histVars

\* idle exit that drops the registry entry as soon as the timer fires
TimeoutFire_popsEarly(w) ==
  /\ pc[w] = "wait"
  /\ ~signal[w]
  /\ timer[w] = 0
  /\ pc' = [pc EXCEPT ![w] = "cleanup"]
  /\ states' = [states EXCEPT ![KeyOf(w)] = 0]
  /\ UNCHANGED <<signal, timer, factory, lock, sem, max_concurrent_keys>>
  /\ UNCHANGED histVars

\* an idle timeout that also covers the debounce sleep
TimeoutFire_anyPhase(w) ==
  /\ pc[w] \in {"wait", "debounce"}
  /\ timer[w] = 0
  /\ pc' = [pc EXCEPT ![w] = "cleanup"]
  /\ UNCHANGED <<states, signal, timer, factory, lock, sem, max_concurrent_keys>>
  /\ UNCHANGED histVars

\* idle exit that does not wait for the idle timeout to elapse
TimeoutFire_early(w) ==
  /\ pc[w] = "wait"
  /\ ~signal[w]
  /\ pc' = [pc EXCEPT ![w] = "cleanup"]
  /\ UNCHANGED <<states, signal, timer, factory, lock, sem, max_concurrent_keys>>
  /\ UNCHANGED histVars

\* the idle timer fires on a blocked worker that saw no signal: TimeoutError
\* is on its way to the coroutine, which leaves the loop when it next runs
TimeoutFire(w) ==
  /\ pc[w] = "wait"
  /\ ~signal[w]
  /\ timer[w] = 0
  /\ pc' = [pc EXCEPT ![w] = "cleanup"]
  /\ UNCHANGED <<states, signal, timer, factory, lock, sem, max_concurrent_keys>>
  /\ UNCHANGED histVars

\* the semaphore grants a slot and job_factory() is called
StartJobP(w) ==
  /\ sem' = sem - 1
  /\ pc' = [pc EXCEPT ![w] = "run"]

StartJob(w) ==
  /\ StartJobP(w)
  /\ NoteRun(KeyOf(w))

\* a worker that claims the burst without sleeping through the window
DebounceEnd_noSleep(w) ==
  /\ pc[w] = "debounce"
  /\ signal' = [signal EXCEPT ![w] = FALSE]
  /\ \/ /\ sem > 0
        /\ StartJob(w)
     \/ /\ sem = 0 \/ Admitting # {}
        /\ pc' = [pc EXCEPT ![w] = "admit"]
        /\ UNCHANGED sem
        /\ UNCHANGED histVars
  /\ UNCHANGED <<states, timer, factory, lock, max_concurrent_keys>>

\* a worker that leaves the signal set after the debounce sleep
DebounceEnd_noClear(w) ==
  /\ pc[w] = "debounce"
  /\ timer[w] = 0
  /\ UNCHANGED signal
  /\ \/ /\ sem > 0
        /\ StartJob(w)
     \/ /\ sem = 0 \/ Admitting # {}
        /\ pc' = [pc EXCEPT ![w] = "admit"]
        /\ UNCHANGED sem
        /\ UNCHANGED histVars
  /\ UNCHANGED <<states, timer, factory, lock, max_concurrent_keys>>

\* the debounce sleep ends: the signal is cleared and the semaphore is
\* entered, at once when a slot is free and nobody queues for one
DebounceEndP(w) ==
  /\ pc[w] = "debounce"
  /\ timer[w] = 0
  /\ signal' = [signal EXCEPT ![w] = FALSE]
  /\ \/ /\ sem > 0
        /\ StartJobP(w)
     \/ /\ sem = 0 \/ Admitting # {}
        /\ pc' = [pc EXCEPT ![w] = "admit"]
        /\ UNCHANGED sem
  /\ UNCHANGED <<states, timer, factory, lock, max_concurrent_keys>>

DebounceEnd(w) ==
  /\ DebounceEndP(w)
  /\ IF pc'[w] = "run" THEN NoteRun(KeyOf(w)) ELSE UNCHANGED histVars

DebounceEndL(w) ==
  /\ DebounceEndP(w)
  /\ IF pc'[w] = "run" THEN NoteRunL(KeyOf(w)) ELSE UNCHANGED histVars

\* a queued worker that runs its job without holding a slot
AcquireSlot_noGate(w) ==
  /\ pc[w] = "admit"
  /\ StartJob(w)
  /\ UNCHANGED <<states, signal, timer, factory, lock, max_concurrent_keys>>

\* a worker queued at the semaphore gets a slot
AcquireSlotP(w) ==
  /\ pc[w] = "admit"
  /\ sem > 0
  /\ StartJobP(w)
  /\ UNCHANGED <<states, signal, timer, factory, lock, max_concurrent_keys>>

AcquireSlot(w) ==
  /\ AcquireSlotP(w)
  /\ NoteRun(KeyOf(w))

AcquireSlotL(w) ==
  /\ AcquireSlotP(w)
  /\ NoteRunL(KeyOf(w))

\* a worker that clears the signal after the job instead of before it
JobEnd_clearsAfterRun(w, raised) ==
  /\ pc[w] = "run"
  /\ sem' = sem + 1
  /\ signal' = [signal EXCEPT ![w] = FALSE]
  /\ pc' = [pc EXCEPT ![w] = "wait"]
  /\ timer' = [timer EXCEPT ![w] = idle_timeout]
  /\ UNCHANGED <<states, factory, lock, max_concurrent_keys>>
  /\ UNCHANGED callHist

\* a job whose Exception is not caught and ends the worker
JobEnd_failureKillsWorker(w, raised) ==
  /\ pc[w] = "run"
  /\ sem' = sem + 1
  /\ IF raised
       THEN pc' = [pc EXCEPT ![w] = "cleanup"] /\ UNCHANGED timer
       ELSE LoopTop(w)
  /\ UNCHANGED <<states, signal, factory, lock, max_concurrent_keys>>
  /\ UNCHANGED callHist

\* a slot that is released only when the job returns normally
JobEnd_leaksOnError(w, raised) ==
  /\ pc[w] = "run"
  /\ sem' = IF raised THEN sem ELSE sem + 1
  /\ LoopTop(w)
  /\ UNCHANGED <<states, signal, factory, lock, max_concurrent_keys>>
  /\ UNCHANGED callHist

\* a worker that runs a failed job again
JobEnd_retriesOnError(w, raised) ==
  /\ pc[w] = "run"
  /\ sem' = sem + 1
  /\ IF raised
       THEN pc' = [pc EXCEPT ![w] = "debounce"] /\ timer' = [timer EXCEPT ![w] = debounce_window]
       ELSE LoopTop(w)
  /\ UNCHANGED <<states, signal, factory, lock, max_concurrent_keys>>
  /\ UNCHANGED callHist

\* a worker that keeps its slot while it debounces a trailing signal
JobEnd_keepsSlotWhileTrailing(w, raised) ==
  /\ pc[w] = "run"
  /\ sem' = IF signal[w] THEN sem ELSE sem + 1
  /\ LoopTop(w)
  /\ UNCHANGED <<states, signal, factory, lock, max_concurrent_keys>>
  /\ UNCHANGED callHist

\* a worker that keeps its slot after the job
JobEndP_noRelease(w) ==
  /\ pc[w] = "run"
  /\ UNCHANGED sem
  /\ LoopTop(w)
  /\ UNCHANGED <<states, signal, factory, lock, max_concurrent_keys>>

\* the job returns or raises an Exception (logged): the slot is released
\* and the loop starts over
JobEndP(w) ==
  /\ pc[w] = "run"
  /\ sem' = sem + 1
  /\ LoopTop(w)
  /\ UNCHANGED <<states, signal, factory, lock, max_concurrent_keys>>

\* raised: the job raised an Exception, which line 57 logs and drops
JobEnd(w, raised) ==
  /\ JobEndP(w)
  /\ UNCHANGED callHist

\* the end of a job with its outcome left unrecorded
JobEndUnnoted(w, raised) ==
  /\ JobEnd(w, raised)
  /\ UNCHANGED lastRaised

\* the end of a job with its outcome recorded
JobEndNoted(w, raised) ==
  /\ JobEnd(w, raised)
  /\ lastRaised' = [lastRaised EXCEPT ![KeyOf(w)] = raised]

JobEndL(w) ==
  /\ JobEndP(w)
  /\ UNCHANGED histVars

\* finally: async with self._lock
AcquireLock(w) ==
  /\ pc[w] = "cleanup"
  /\ lock = NoOne
  /\ lock' = w
  /\ pc' = [pc EXCEPT ![w] = "popping"]
  /\ UNCHANGED <<states, signal, timer, factory, sem, max_concurrent_keys>>
  /\ UNCHANGED histVars

\* an exit that leaves the entry in the registry
Pop_keepsEntry(w) ==
  /\ pc[w] = "popping"
  /\ lock' = NoOne
  /\ pc' = [pc EXCEPT ![w] = "done"]
  /\ timer' = [timer EXCEPT ![w] = 0]
  /\ factory' = [factory EXCEPT ![w] = NoJob]
  /\ UNCHANGED <<states, signal, sem, max_concurrent_keys>>
  /\ UNCHANGED histVars

\* self._states.pop(key, None), release of the lock, end of the coroutine:
\* the frame of _run_worker, and with it its job_factory argument, is gone
Pop(w) ==
  /\ pc[w] = "popping"
  /\ states' = [states EXCEPT ![KeyOf(w)] = 0]
  /\ lock' = NoOne
  /\ pc' = [pc EXCEPT ![w] = "done"]
  /\ timer' = [timer EXCEPT ![w] = 0]
  /\ factory' = [factory EXCEPT ![w] = NoJob]
  /\ UNCHANGED <<signal, sem, max_concurrent_keys>>
  /\ UNCHANGED histVars

\* ---------------------------------------------------------------- time
Dec(n) == IF n > 0 THEN n - 1 ELSE 0
Sat(n) == Min(n + 1, debounce_window)
SatIdle(n) == Min(n + 1, idle_timeout)
Timed(w) == pc[w] \in {"wait", "debounce"}
TickL ==
  /\ timer' = [w \in Workers |-> IF Timed(w) THEN Dec(timer[w]) ELSE timer[w]]
  /\ sinceLast' = [k \in Keys |-> IF enqCount[k] > 0 THEN SatIdle(sinceLast[k]) ELSE 0]
  /\ <<timer, sinceLast>>' # <<timer, sinceLast>>
  /\ UNCHANGED <<states, signal, pc, factory, lock, sem, max_concurrent_keys>>
  /\ UNCHANGED <<enqCount, runCount, lastEnqPhase, runsSinceEnq, sinceFirst, chain, within, queued, lastRaised, jobHist, faulted, ranOnce>>

Tick ==
  /\ timer' = [w \in Workers |-> IF Timed(w) THEN Dec(timer[w]) ELSE timer[w]]
  /\ sinceFirst' = [k \in Keys |-> IF enqCount[k] > 0 THEN Sat(sinceFirst[k]) ELSE 0]
  /\ sinceLast' = [k \in Keys |-> IF enqCount[k] > 0 THEN Sat(sinceLast[k]) ELSE 0]
  /\ <<timer, sinceFirst, sinceLast>>' # <<timer, sinceFirst, sinceLast>>
  /\ UNCHANGED <<states, signal, pc, factory, lock, sem, max_concurrent_keys>>
  /\ UNCHANGED <<enqCount, runCount, lastEnqPhase, runsSinceEnq, chain, within, queued, lastRaised, jobHist, faulted, ranOnce>>

\* every step but the end of a job
NextButJobEnd ==
  \/ \E k \in Keys, f \in Jobs : Enqueue(k, f)
  \/ \E w \in Workers : WorkerStart(w)
  \/ \E w \in Workers : WaitSignal(w)
  \/ \E w \in Workers : TimeoutFire(w)
  \/ \E w \in Workers : DebounceEnd(w)
  \/ \E w \in Workers : AcquireSlot(w)
  \/ \E w \in Workers : AcquireLock(w)
  \/ \E w \in Workers : Pop(w)
  \/ Tick

Next ==
  \/ NextButJobEnd
  \/ \E w \in Workers, raised \in BOOLEAN : JobEndUnnoted(w, raised)

Spec == Init /\ [][Next]_vars

\* the same queue, with the outcome of every job on record
NextRaise ==
  \/ NextButJobEnd
  \/ \E w \in Workers, raised \in BOOLEAN : JobEndNoted(w, raised)

RaiseSpec == Init /\ [][NextRaise]_vars

\* the queue alone: the same steps, keeping of the history only the counts
\* and the time since the last enqueue, with one job for every caller
TheJob == CHOOSE f \in Jobs : TRUE
WorkerStepL(w) ==
  \/ WorkerStart(w)
  \/ WaitSignal(w)
  \/ TimeoutFire(w)
  \/ DebounceEndL(w)
  \/ AcquireSlotL(w)
  \/ JobEndL(w)
  \/ AcquireLock(w)
  \/ Pop(w)

NextL ==
  \/ \E k \in Keys : EnqueueL(k, TheJob)
  \/ \E w \in Workers : WorkerStepL(w)
  \/ TickL

\* the event loop runs every ready task and every due timer, time passes and
\* every job terminates; nothing obliges a caller to enqueue
Fairness == WF_vars(TickL) /\ \A w \in Workers : WF_vars(WorkerStepL(w))
FairSpec == Init /\ [][NextL]_vars /\ Fairness

\* the queue with the job factories on record: which one made the entry,
\* which one the last call passed, which one the worker called
NoteEnqueueB(k, f) ==
  /\ enqCount' = [enqCount EXCEPT ![k] = @ + 1]
  /\ sinceLast' = [sinceLast EXCEPT ![k] = 0]
  /\ creatorJob' = [creatorJob EXCEPT ![k] = IF states[k] = 0 THEN f ELSE @]
  /\ lastJob' = [lastJob EXCEPT ![k] = f]
  /\ UNCHANGED <<runCount, lastEnqPhase, runsSinceEnq, sinceFirst, chain, within, queued, lastRaised, ranJob, faulted, ranOnce>>

\* await job_factory(): the worker calls the factory it was started with
NoteRunB(w) ==
  /\ runCount' = [runCount EXCEPT ![KeyOf(w)] = Min(@ + 1, MaxEnq + 1)]
  /\ ranJob' = [ranJob EXCEPT ![KeyOf(w)] = factory[w]]
  /\ UNCHANGED <<enqCount, lastEnqPhase, runsSinceEnq, sinceFirst, sinceLast, chain, within, queued, lastRaised, creatorJob, lastJob, faulted, ranOnce>>

EnqueueB(k, f) ==
  /\ EnqTotal < MaxEnq
  /\ EnqueueP(k, f)
  /\ NoteEnqueueB(k, f)

DebounceEndB(w) ==
  /\ DebounceEndP(w)
  /\ IF pc'[w] = "run" THEN NoteRunB(w) ELSE UNCHANGED histVars

AcquireSlotB(w) ==
  /\ AcquireSlotP(w)
  /\ NoteRunB(w)

NextBind ==
  \/ \E k \in Keys, f \in Jobs : EnqueueB(k, f)
  \/ \E w \in Workers : WorkerStart(w)
  \/ \E w \in Workers : WaitSignal(w)
  \/ \E w \in Workers : TimeoutFire(w)
  \/ \E w \in Workers : DebounceEndB(w)
  \/ \E w \in Workers : AcquireSlotB(w)
  \/ \E w \in Workers : JobEndL(w)
  \/ \E w \in Workers : AcquireLock(w)
  \/ \E w \in Workers : Pop(w)
  \/ TickL

BindSpec == Init /\ [][NextBind]_vars

\* a fault that ends the coroutine without its finally block
JobFault_skipsFinally(w) ==
  /\ pc[w] = "run"
  /\ sem' = sem + 1
  /\ pc' = [pc EXCEPT ![w] = "done"]
  /\ faulted' = [faulted EXCEPT ![KeyOf(w)] = TRUE]
  /\ UNCHANGED <<states, signal, timer, factory, lock, max_concurrent_keys>>
  /\ UNCHANGED <<enqCount, runCount, lastEnqPhase, runsSinceEnq, sinceFirst, sinceLast, chain, within, queued, lastRaised, jobHist, ranOnce>>

\* the job ends with something that is not an Exception (the task is
\* cancelled): the semaphore's context manager releases the slot and the
\* coroutine goes to its finally block
JobFault(w) ==
  /\ pc[w] = "run"
  /\ sem' = sem + 1
  /\ pc' = [pc EXCEPT ![w] = "cleanup"]
  /\ faulted' = [faulted EXCEPT ![KeyOf(w)] = TRUE]
  /\ UNCHANGED <<states, signal, timer, factory, lock, max_concurrent_keys>>
  /\ UNCHANGED <<enqCount, runCount, lastEnqPhase, runsSinceEnq, sinceFirst, sinceLast, chain, within, queued, lastRaised, jobHist, ranOnce>>

NextFault ==
  \/ Next
  \/ \E w \in Workers : JobFault(w)

FaultSpec == Init /\ [][NextFault]_vars

\* the queue alone with jobs that may end with a fault, under the same
\* scheduling: no fault is ever obliged to happen
NextFaultL ==
  \/ NextL
  \/ \E w \in Workers : JobFault(w)

FaultFairSpec == Init /\ [][NextFaultL]_vars /\ Fairness

\* ---------------------------------------------------------------- properties
TypeOK ==
  /\ states \in [Keys -> 0..MaxEnq]
  /\ signal \in [Workers -> BOOLEAN]
  /\ pc \in [Workers -> {"none", "new", "wait", "debounce", "admit", "run", "cleanup", "popping", "done"}]
  /\ timer \in [Workers -> 0..idle_timeout]
  /\ lock \in Workers \cup {NoOne}
  /\ sem \in 0..max_concurrent_keys

RunningOf(k) == {w \in WorkersOf(k) : pc[w] = "run"}

\* C1: per-key serialization - in every reachable state every key has at most
\* one job execution in progress (between job_factory() and its completion).
C1_PerKeySerialization == \A k \in Keys : Cardinality(RunningOf(k)) <= 1
\* a job of a key is running and the key was enqueued again meanwhile
C1_Witness == \E k \in Keys : RunningOf(k) # {} /\ lastEnqPhase[k] = "run" /\ enqCount[k] >= 2

\* C2: concurrency bound - the number of job executions in progress over all
\* keys never exceeds max_concurrent_keys.
C2_ConcurrencyBound == Cardinality(Running) <= max_concurrent_keys
\* every slot is taken and another key's worker queues at the semaphore
C2_Witness == Cardinality(Running) = max_concurrent_keys /\ Admitting # {}

\* C3: no lost signal - every enqueue for a key is followed by a job execution
\* of that key that started at or after it; stated on the states from which
\* nothing more can happen for the key: once the key has no registry entry
\* and no worker, its last enqueue has been followed by a job start.
C3_NoLostSignal == \A k \in Keys : (Quiescent(k) /\ enqCount[k] > 0) => runsSinceEnq[k] >= 1

\* C4: the idle-exit race is closed - no worker removes its registry entry
\* while its pending-signal flag is set.
C4_IdleExitRaceClosed == [][\A w \in Workers : (pc[w] = "popping" /\ pc'[w] = "done") => ~signal[w]]_vars

\* C5 as stated: from an empty registry, enqueue calls for a key that each
\* come less than debounce_window after the previous one give exactly one job
\* execution (never more than one, and one when the key has gone quiet).
C5_CoalescingChain == \A k \in Keys : (enqCount[k] >= 1 /\ chain[k]) => (runCount[k] <= 1 /\ (Quiescent(k) => runCount[k] = 1))
\* C5 amended: from an empty registry, enqueue calls for a key that all come
\* less than debounce_window after the first one give exactly one job execution.
C5_CoalescingWindow == \A k \in Keys : (enqCount[k] >= 1 /\ within[k]) => (runCount[k] <= 1 /\ (Quiescent(k) => runCount[k] = 1))
\* a burst of three calls inside the window has been served by one run and the key is gone
C5_Witness == \E k \in Keys : enqCount[k] >= 3 /\ within[k] /\ Quiescent(k) /\ runCount[k] = 1

\* C6: enqueue calls that arrive while the key's job is executing, with none
\* after them, give exactly one more execution, and it starts only when no
\* execution of the key is in progress.
C6_TrailingAfterRunning ==
  /\ [](\A k \in Keys : lastEnqPhase[k] = "run" => (runsSinceEnq[k] <= 1 /\ (Quiescent(k) => runsSinceEnq[k] = 1)))
  /\ [][\A k \in Keys : (lastEnqPhase[k] = "run" /\ runCount'[k] > runCount[k]) => RunningOf(k) = {}]_vars
\* the trailing run of an enqueue made during a run has started
C6_Witness == \E k \in Keys : lastEnqPhase[k] = "run" /\ runsSinceEnq[k] = 1 /\ RunningOf(k) # {}

C8_FireAndForget ==
  /\ \A w \in Workers : pc[w] \in {"new", "wait", "debounce", "admit", "run", "cleanup"} => lock # w
  /\ (lock = NoOne /\ EnqTotal < MaxEnq) => \A k \in Keys : \A f \in Jobs : ENABLED Enqueue(k, f)
\* an enqueue has completed for a key whose job is running with every slot taken
C8_Witness == \E k \in Keys : lastEnqPhase[k] = "run" /\ RunningOf(k) # {} /\ sem = 0 /\ runsSinceEnq[k] = 0

Started == {w \in Workers : pc[w] = "none" /\ pc'[w] # "none"}
\* C9: effect of enqueue(K, f) - without an entry for K the registry gains one
\* entry for K with one newly started worker; with an entry no worker is
\* started and the entry stays; either way the signal of K's worker is set.
C9_EnqueueEffect ==
  [][\A k \in Keys : enqCount'[k] = enqCount[k] + 1 =>
        /\ IF states[k] = 0
             THEN states'[k] # 0 /\ Started = {<<k, states'[k]>>} /\ pc'[<<k, states'[k]>>] = "new"
             ELSE states'[k] = states[k] /\ Started = {}
        /\ signal'[<<k, states'[k]>>]
        /\ \A j \in Keys \ {k} : states'[j] = states[j]]_vars
\* an enqueue has hit an existing entry whose signal had been cleared
C9_Witness == \E k \in Keys : lastEnqPhase[k] \in {"admit", "run", "wait"} /\ runsSinceEnq[k] = 0 /\ states[k] # 0 /\ signal[<<k, states[k]>>]

\* C10: at most one live worker per key - for every key at most one worker
\* loop has been started and has not finished its exit.
C10_OneLiveWorkerPerKey == \A k \in Keys : Cardinality(LiveWorkers(k)) <= 1
\* a key is served by its second worker after the first one exited
C10_Witness == \E k \in Keys : states[k] >= 2 /\ Live(<<k, states[k]>>) /\ pc[<<k, 1>>] = "done"

\* C11: idle reclamation - a worker leaves its wait by timeout only when no
\* enqueue for its key arrived for idle_timeout; a waiting worker that gets
\* no signal exits and its key leaves the registry; an exited worker is never
\* the registry's entry, and the enqueue after the exit starts a worker that
\* did not exist before, with its own signal set.
C11_IdleReclamation ==
  /\ [](\A w \in Workers : pc[w] = "done" => states[KeyOf(w)] # w[2])
  /\ [][\A w \in Workers : (pc[w] = "wait" /\ pc'[w] = "cleanup") => sinceLast[KeyOf(w)] >= idle_timeout]_vars
  /\ [][\A k \in Keys : (enqCount'[k] > enqCount[k] /\ states[k] = 0) =>
          (pc[<<k, states'[k]>>] = "none" /\ pc'[<<k, states'[k]>>] = "new" /\ signal'[<<k, states'[k]>>])]_vars
  /\ \A w \in Workers : (pc[w] = "wait" /\ ~signal[w]) ~> (signal[w] \/ (pc[w] = "done" /\ states[KeyOf(w)] = 0))
\* after the idle exit of its first worker a key has been enqueued again and has a second worker
C11_Witness == \E k \in Keys : pc[<<k, 1>>] = "done" /\ states[k] = 2 /\ pc[<<k, 2>>] = "new" /\ signal[<<k, 2>>] /\ runCount[k] >= 1

\* C12: job failure isolation - when a job raises, its worker stays in the
\* registry and goes on as after a success (debounce again if its signal is
\* set, wait otherwise), and no other worker, the registry and the signals
\* are touched.
C12_JobFailureIsolation ==
  [][\A w \in Workers : (pc[w] = "run" /\ pc'[w] # "run" /\ lastRaised'[KeyOf(w)]) =>
        /\ pc'[w] = IF signal[w] THEN "debounce" ELSE "wait"
        /\ states[KeyOf(w)] = w[2]
        /\ states' = states
        /\ signal' = signal
        /\ \A v \in Workers \ {w} : pc'[v] = pc[v] /\ timer'[v] = timer[v]]_vars
\* after a failed run the worker of the key is debouncing the signal that came during that run
C12_Witness == \E k \in Keys : lastRaised[k] /\ states[k] # 0 /\ pc[<<k, states[k]>>] = "debounce" /\ lastEnqPhase[k] = "run" /\ runsSinceEnq[k] = 0

\* C13: slot accounting - in every reachable state the slots taken from the
\* semaphore are exactly those of the job executions in progress, whether the
\* jobs before returned, raised or ended the worker; with no job running all
\* max_concurrent_keys slots are free.
C13_SlotAccounting == sem = max_concurrent_keys - Cardinality(Running)
\* a job ended with a fault while its signal was set, and every slot is free again
C13_Witness == \E w \in Workers : pc[w] = "cleanup" /\ signal[w] /\ lastEnqPhase[KeyOf(w)] = "run" /\ Running = {} /\ sem = max_concurrent_keys

\* C14: the registry mirrors liveness - a key has an entry exactly when a
\* worker loop of the key is alive, and the entry is that worker's.
C14_RegistryMirrorsLiveness == \A k \in Keys : LiveWorkers(k) = IF states[k] = 0 THEN {} ELSE {<<k, states[k]>>}
\* one key has lost its entry with the exit of its worker while another key has entry and worker
C14_Witness == \E k \in Keys : \E j \in Keys : states[k] = 0 /\ pc[<<k, 1>>] = "done" /\ states[j] # 0 /\ Live(<<j, states[j]>>)

\* C15 as stated: after a quick succession of enqueue calls for a key, the
\* job execution starts no earlier than debounce_window after the last call.
C15_DebounceFromLastCall ==
  [][\A k \in Keys : (runCount[k] = 0 /\ runCount'[k] = 1 /\ enqCount[k] >= 2 /\ chain[k]) => sinceLast[k] >= debounce_window]_vars
\* C15 amended: after a quick succession of enqueue calls for a key, the
\* first job execution starts no earlier than debounce_window after the
\* first call.
C15_DebounceFromFirstCall ==
  [][\A k \in Keys : (runCount[k] = 0 /\ runCount'[k] = 1) => sinceFirst[k] >= debounce_window]_vars
\* the run of a burst has started less than debounce_window after the burst's last call
C15_Witness == \E k \in Keys : runCount[k] = 1 /\ RunningOf(k) # {} /\ enqCount[k] >= 2 /\ chain[k] /\ lastEnqPhase[k] = "debounce" /\ sinceLast[k] < debounce_window

\* C16: no starvation at the concurrency gate - with every job terminating,
\* every worker that waits for a slot gets one, and every enqueued key gets
\* a job execution that runs to completion.
C16_NoStarvation ==
  /\ \A w \in Workers : pc[w] = "admit" ~> pc[w] = "run"
  /\ \A k \in Keys : enqCount[k] > 0 ~> (runCount[k] >= 1 /\ RunningOf(k) = {})
\* keys outnumber slots, and a worker that queued for the slot has run its job to the end
C16_Witness == \E k \in Keys : max_concurrent_keys < Cardinality(Keys) /\ queued[k] /\ runCount[k] >= 1 /\ RunningOf(k) = {}

ExpectedRuns(k) == IF lastEnqPhase[k] = "admit" THEN 2 ELSE 1
\* C17: no automatic retry - the job executions that follow the last enqueue
\* of a key are those its signal accounts for (one, or two when the call
\* came while the worker queued for a slot), whether the jobs raise or not:
\* never more, and exactly that many once the key has gone quiet.
C17_NoAutomaticRetry ==
  \A k \in Keys : enqCount[k] > 0 =>
     /\ runsSinceEnq[k] <= ExpectedRuns(k)
     /\ (Quiescent(k) /\ lastEnqPhase[k] # "cleanup") => runsSinceEnq[k] = ExpectedRuns(k)
\* a key whose only job execution raised has gone quiet without a second execution
C17_Witness == \E k \in Keys : lastRaised[k] /\ Quiescent(k) /\ runCount[k] = 1 /\ lastEnqPhase[k] = "absent"

\* C18: the debounce is one fixed window - the pause starts at
\* debounce_window when the worker sees its signal, ends only when it has
\* run out, and then the signal is cleared; an enqueue during the pause
\* changes neither the time left nor the worker's position.
C18_FixedDebounceWindow ==
  /\ [][\A w \in Workers : (pc[w] # "debounce" /\ pc'[w] = "debounce") => timer'[w] = debounce_window]_vars
  /\ [][\A w \in Workers : (pc[w] = "debounce" /\ pc'[w] # "debounce") => (timer[w] = 0 /\ ~signal'[w])]_vars
  /\ [][\A w \in Workers : (pc[w] = "debounce" /\ enqCount'[KeyOf(w)] > enqCount[KeyOf(w)]) =>
           (pc'[w] = "debounce" /\ timer'[w] = timer[w])]_vars
\* an enqueue has just come in the middle of the pause, whose time left is not the full window
C18_Witness == \E w \in Workers : pc[w] = "debounce" /\ lastEnqPhase[KeyOf(w)] = "debounce" /\ sinceLast[KeyOf(w)] = 0 /\ timer[w] < debounce_window

C20_CrossKeyIndependence ==
  /\ \A w \in Admitting : sem = 0 => Cardinality(Running \ WorkersOf(KeyOf(w))) = max_concurrent_keys
  /\ \A w \in Admitting : sem > 0 => ENABLED AcquireSlot(w)
\* jobs of two different keys are running at the same time
C20_Witness == \E v \in Running : \E w \in Running : KeyOf(v) # KeyOf(w)

\* no worker alive, no registry entry, every slot free
AllQuiet ==
  /\ \A w \in Workers : ~Live(w)
  /\ \A k \in Keys : states[k] = 0
  /\ sem = max_concurrent_keys
\* C21: quiescence - once the enqueue calls have stopped (and every job
\* terminates) the queue reaches, and then stays in, the state with every
\* worker exited, the registry empty and all slots free.
C21_Quiescence == <>[]AllQuiet
\* every enqueue of the behaviour has been made, every key has run, and the queue is empty again
C21_Witness == AllQuiet /\ EnqTotal = MaxEnq /\ \A k \in Keys : runCount[k] >= 1

\* C23: no spurious runs - a signal is set only by an enqueue of its key; a
\* worker enters the semaphore (and so starts a job) only at the end of a
\* debounce with its signal set, which it clears; a job starts only from
\* there or from the queue for a slot; hence the job executions started for
\* a key never outnumber the enqueue calls made for it.
C23_NoSpuriousRuns ==
  /\ [](\A k \in Keys : runCount[k] <= enqCount[k])
  /\ [][\A w \in Workers : (signal'[w] /\ ~signal[w]) => enqCount'[KeyOf(w)] = enqCount[KeyOf(w)] + 1]_vars
  /\ [][\A w \in Workers : (pc'[w] \in {"admit", "run"} /\ pc[w] \notin {"admit", "run"}) =>
          (pc[w] = "debounce" /\ signal[w] /\ ~signal'[w])]_vars
  /\ [][\A w \in Workers : (pc'[w] = "run" /\ pc[w] # "run") =>
          (pc[w] \in {"debounce", "admit"} /\ runCount'[KeyOf(w)] = runCount[KeyOf(w)] + 1)]_vars
\* a key enqueued twice is in its second job execution: one run per call, none more
C23_Witness == \E k \in Keys : enqCount[k] = 2 /\ runCount[k] = 2 /\ RunningOf(k) # {}

\* C24: exit removes only the worker's own entry - a worker on its way out
\* is the one its key is registered for, and the entry it pops is its own:
\* no newer worker of the key exists when it pops.
C24_ExitRemovesOwnEntry ==
  /\ [](\A w \in Workers : pc[w] \in {"cleanup", "popping"} => states[KeyOf(w)] = w[2])
  /\ [][\A w \in Workers : (pc[w] = "popping" /\ pc'[w] = "done") =>
          /\ states[KeyOf(w)] = w[2]
          /\ states'[KeyOf(w)] = 0
          /\ \A v \in WorkersOf(KeyOf(w)) : v[2] > w[2] => pc[v] = "none"]_vars
\* the second worker of a key, registered after the first one exited, is about to pop the entry
C24_Witness == \E k \in Keys : pc[<<k, 1>>] = "done" /\ pc[<<k, 2>>] = "popping" /\ states[k] = 2

\* C26: frame of enqueue - an enqueue for key k leaves the registry entries,
\* signals, phases, timers and job factories of all other keys, the free
\* slots and the lock as they were; of k itself it changes only the entry
\* (a new worker when there was none) and the signal of the entry's worker.
C26_FrameOfEnqueue ==
  [][\A k \in Keys : enqCount'[k] = enqCount[k] + 1 =>
        /\ \A j \in Keys \ {k} : states'[j] = states[j]
        /\ \A w \in Workers \ WorkersOf(k) :
              signal'[w] = signal[w] /\ pc'[w] = pc[w] /\ timer'[w] = timer[w] /\ factory'[w] = factory[w]
        /\ sem' = sem /\ lock' = lock /\ max_concurrent_keys' = max_concurrent_keys
        /\ \A w \in WorkersOf(k) :
              /\ timer'[w] = timer[w]
              /\ w[2] # states'[k] => signal'[w] = signal[w]
              /\ pc'[w] = pc[w] \/ (states[k] = 0 /\ states'[k] = w[2] /\ pc[w] = "none" /\ pc'[w] = "new")
        /\ states[k] # 0 => states'[k] = states[k]]_vars
\* a key has just been enqueued and got a new worker while the worker of another key waits unsignalled
C26_Witness ==
  \E k \in Keys : \E j \in Keys \ {k} :
    /\ lastEnqPhase[k] = "absent" /\ sinceLast[k] = 0 /\ states[k] # 0 /\ pc[<<k, states[k]>>] = "new"
    /\ states[j] # 0 /\ pc[<<j, states[j]>>] = "wait" /\ ~signal[<<j, states[j]>>]

\* C27: every worker runs at least once - a worker is created with its
\* signal set, reaches the wait for a signal only after it has started a job
\* execution, and so never leaves by idle timeout before its first job.
C27_EveryWorkerRunsOnce ==
  /\ [](\A w \in Workers : pc[w] = "new" => signal[w])
  /\ [](\A w \in Workers : pc[w] \in {"wait", "cleanup", "popping", "done"} => ranOnce[w])
  /\ [][\A w \in Workers : (pc[w] = "wait" /\ pc'[w] = "cleanup") => ranOnce[w]]_vars
\* the second worker of a key leaves by idle timeout after the key's second job execution
C27_Witness == \E k \in Keys : pc[<<k, 2>>] = "cleanup" /\ ranOnce[<<k, 2>>] /\ runCount[k] = 2

\* C22: job factory binding - the factory a worker calls at every job start
\* is the one of the enqueue that made the key's entry; an enqueue that
\* finds an entry leaves the worker's factory alone, whatever factory it
\* passes.
C22_JobFactoryBinding ==
  /\ [][\A k \in Keys : runCount'[k] = runCount[k] + 1 => (ranJob'[k] = creatorJob[k] /\ ranJob'[k] \in Jobs)]_vars
  /\ [][\A k \in Keys : (enqCount'[k] = enqCount[k] + 1 /\ states[k] # 0) =>
          (factory' = factory /\ creatorJob' = creatorJob)]_vars
  /\ [](\A k \in Keys : states[k] # 0 => factory[<<k, states[k]>>] = creatorJob[k])
\* the first worker of a key is in its second job execution: the last call passed another factory, the first caller's is run
C22_Witness ==
  \E k \in Keys : states[k] = 1 /\ pc[<<k, 1>>] = "run" /\ runCount[k] = 2
                    /\ lastJob[k] # creatorJob[k] /\ ranJob[k] = creatorJob[k]

====
